---- MODULE Spec2Model ----
(***************************************************************************)
(* Model of src/image-generator.ts (class ImageGenerator): the request     *)
(* budget (checkRateLimit / executeWithRateLimit), the per-product          *)
(* generation loop (generateImages) and the batch loop (processProducts).   *)
(* Times are milliseconds, as returned by Date.now().                       *)
(***************************************************************************)
EXTENDS Integers, Sequences, FiniteSets, TLC

\* ------------------------------------------------------------------ bounds
MaxCalls == 4          \* rate-limited calls issued by the generic caller
MaxPerMinute == 2      \* configured requestsPerMinute ranges over 1..MaxPerMinute
MaxPerDay == 3         \* configured requestsPerDay ranges over 1..MaxPerDay
MaxFaults == 3         \* failures of remote services during one batch run
MaxRows == 3           \* rows of the CSV file

\* ------------------------------------------------------- program constants
oneMinute == 60 * 1000
oneDay == 24 * 60 * 60 * 1000
delayBetweenRequests == 150
defaultRequestsPerMinute == 400
defaultRequestsPerDay == 500000
maxRetries == 3
downloadMaxRetries == 3
downloadTimeout == 30000
maxSceneRegenerates == 2

\* Lines 523-529: the declared generation steps, in declaration order.
imageTypes ==
  << [type |-> "garment_full", usesScene |-> FALSE],
     [type |-> "garment_closeup", usesScene |-> FALSE],
     [type |-> "garment_angular", usesScene |-> FALSE],
     [type |-> "photoshoot_1", usesScene |-> TRUE],
     [type |-> "photoshoot_2", usesScene |-> TRUE] >>
\* A loop that leaves the last declared step out.
NumStepsButLast == Len(imageTypes) - 1

\* Line 532: imageTypes.length.
NumSteps == Len(imageTypes)

\* Lines 915-921: the titles processProducts gives the uploads, by position.
imageTypeNames ==
  << "Full View - White Background",
     "Close-up Details - White Background",
     "Angular/Folded View - White Background",
     "Styled Photoshoot Scene 1",
     "Styled Photoshoot Scene 2" >>

\* Lines 967-995: the types of metadata.imageTypes, by position.
metadataTypes ==
  << "garment_full_view", "garment_closeup", "garment_angular",
     "styled_photoshoot_1", "styled_photoshoot_2" >>

\* The values of the Handle column.
Handles == {"h1", "h2", "h3"}
\* An option that is not given (limit, line 838); "" is a handle not given (line 842).
undefined == 0 - 1

\* Time that may pass between two calls of the generic caller.
Gaps == {0, 30000, oneMinute + 1, oneDay - 30000, oneDay + 1}
\* A timer fires at its delay or later.
TimerLateness == {0, 3}

\* What a remote call returns when it returns: the scene call a JSON text that
\* parses to a scene with every field, parses to a scene lacking props, or does
\* not parse; the image call a response with or without an inlineData part.
Responses(kind) ==
  CASE kind = "scene" -> {"scene", "sceneNoProps", "unparsable"}
    [] kind = "image" -> {"image", "noimage"}
    [] OTHER -> {"ok"}

\* The responses that are failures of the remote service.
IsFault(r) == r \in {"sceneNoProps", "unparsable", "noimage"}

NoScene == [id |-> 0, src |-> "none", complete |-> FALSE]
NoContent == [prompt |-> "none", scene |-> 0]

VARIABLES
  \* ---- ImageGenerator fields
  now,                \* Date.now()
  requestCount,
  dailyRequestCount,
  lastResetTime,
  RATE_LIMITS,        \* [requestsPerMinute, requestsPerDay], fixed at construction
  \* ---- executeWithRateLimit: position and locals
  rl,                 \* "idle" | "waiting" | "inflight" | "returned" | "threw"
  waitTime,           \* local of checkRateLimit while suspended
  thrown,             \* "none" | "daily" | "op" | "quota": what the call threw
  callKind,           \* "generic" | "scene" | "image": the operation passed
  response,           \* what the operation returned
  \* ---- processProducts
  pc,                 \* position of the flow of control
  promise,            \* "pending" | "resolved" | "rejected": the promise returned
  p,                  \* index in productsToProcess of the product in hand (0: none yet)
  processedProducts,  \* handles pushed to processedProducts
  uploadedUrls,       \* per upload: [art: step that made the file, title, local]
  metadata,           \* metadata.imageTypes of the product in hand: url per slot, or Null
  csvWritten,         \* number of updateCsv calls
  \* ---- generateImages
  photoshootScenes,   \* the scene of line 515 (selectedScene)
  scenesFile,         \* content of photoshoot_scenes.json
  generatedImages,    \* the steps whose file was pushed, in push order
  i,                  \* loop index of the step (1-based)
  currentScene,
  currentContentArray,
  retryCount,
  success,
  sceneRegenerateCount,
  backoff,            \* waitTime of line 708 while the timer runs
  \* ---- history variables (not program state)
  calls,              \* number of calls started by the generic caller
  pre,                \* counters immediately before the current reservation attempt
  base,               \* counters after the window reset of checkRateLimit, before the increment
  resv,               \* what checkRateLimit did: "none" | "minute" | "day" | "wait"
  waitFrom,           \* lastResetTime when checkRateLimit suspended
  dayStart,           \* time the daily counter was last set to 0 (construction or reset)
  callAt,             \* time the current reservation attempt was made
  tally,              \* operations that returned since the minute counter and the daily
                      \* counter were last set to 0, and when the last one returned
  kept,               \* grant times of the generic caller's reservations that were kept
  sceneCalls,         \* scene calls made for the product in hand
  attempts,           \* executeWithRateLimit calls made by the step in hand
  faults,             \* failures of remote services so far in the batch run
  \* ---- the arguments of processProducts, the CSV and the environment (never changed)
  products,           \* the rows pushed at line 854: [Handle, row], row the row number
  startIndex,
  limit,              \* a number, or undefined
  specificHandle,     \* a handle, or ""
  outage,             \* the image model is down for the whole run: its calls all throw
  csv,                \* the rows of the CSV file: [Handle, complete], complete when
                      \* the row has an Image Src and a Title
  \* ---- downloadImage, updateCsv, generatePhotoshootScenes
  dl,                 \* downloadImage: [state, retryCount, code, waitTime]
  updatedCsv,         \* the rows written to updated_lmv_shopify_products.csv
  gps,                \* generatePhotoshootScenes: [state, body, scene, prompt]
  \* ---- history variables of the batch
  skipped,            \* the products the catch of line 1007 skipped: [index, at]
  usedScene           \* per pushed file: the scene (id) of the payload that produced it

budgetVars == <<now, requestCount, dailyRequestCount, lastResetTime, RATE_LIMITS,
                rl, waitTime, thrown, callKind, response>>
callHist == <<pre, base, resv, waitFrom, dayStart, callAt, tally>>
batchRest == <<promise, p, processedProducts, uploadedUrls, metadata, csvWritten>>
batchVars == <<pc, batchRest>>
itemVars == <<photoshootScenes, scenesFile, generatedImages, i, currentScene,
              currentContentArray, retryCount, success, sceneRegenerateCount, backoff,
              sceneCalls, attempts>>
inputVars == <<products, startIndex, limit, specificHandle, outage, csv>>
detailVars == <<dl, updatedCsv, gps>>
vars == <<budgetVars, callHist, batchVars, itemVars, calls, kept, faults,
          inputVars, detailVars, skipped, usedScene>>

\* The url of a metadata slot that has none (null).
Null == [art |-> 0, title |-> "", local |-> FALSE]

\* The remote services fail at most MaxFaults times during a batch run, apart
\* from the image model during an outage; the generic caller's operations fail
\* without bound. The models are given one failure more in a run that is limited
\* to its first product.
Unbounded == callKind = "generic" \/ (outage /\ callKind = "image")
FaultBudget == IF limit = 1 THEN MaxFaults + 1 ELSE MaxFaults
MayFail == Unbounded \/ faults < FaultBudget
Failed == IF Unbounded THEN faults ELSE faults + 1

Min(a, b) == IF a < b THEN a ELSE b
Max(a, b) == IF a > b THEN a ELSE b

\* The index of the last row of a handle instead of the first.
FindLastIndex(self, h) ==
  IF \E k \in 1..Len(self) : self[k].Handle = h
    THEN (CHOOSE k \in 1..Len(self) :
            /\ self[k].Handle = h
            /\ \A j \in (k + 1)..Len(self) : self[j].Handle # h) - 1
    ELSE 0 - 1

\* Array.prototype.findIndex on the Handle column, 0-based; -1 when there is none.
FindIndex(self, h) ==
  IF \E k \in 1..Len(self) : self[k].Handle = h
    THEN (CHOOSE k \in 1..Len(self) :
            /\ self[k].Handle = h
            /\ \A j \in 1..(k - 1) : self[j].Handle # h) - 1
    ELSE 0 - 1

\* Lines 861-863: the rows whose index is the first index of their handle.
RECURSIVE FilterFirst(_, _)
FilterFirst(self, index) ==
  IF index >= Len(self) THEN << >>
  ELSE (IF index = FindIndex(self, self[index + 1].Handle)
          THEN << self[index + 1] >> ELSE << >>) \o FilterFirst(self, index + 1)

\* The products taken from the last row of the file to the first.
uniqueProductsLastFirst ==
  LET u == FilterFirst(products, 0) IN [k \in 1..Len(u) |-> u[Len(u) + 1 - k]]

uniqueProducts == FilterFirst(products, 0)

\* Lines 866-867: the filter by handle, when one is given.
HasHandle(row) == row.Handle = specificHandle
filteredProducts ==
  IF specificHandle # "" THEN SelectSeq(uniqueProducts, HasHandle) ELSE uniqueProducts

\* Array.prototype.slice(a, b) for 0 <= a, 0 <= b.
Slice(s, a, b) == [k \in 1..Max(0, Min(b, Len(s)) - a) |-> s[a + k]]

\* Lines 877-879.
startIdx == Max(0, startIndex)
endIdx ==
  IF limit # undefined /\ limit # 0
    THEN Min(startIdx + limit, Len(filteredProducts))
    ELSE Len(filteredProducts)
productsToProcess == Slice(filteredProducts, startIdx, endIdx)

RECURSIVE Pow2(_)
Pow2(n) == IF n = 0 THEN 1 ELSE 2 * Pow2(n - 1)

\* ------------------------------------------------------------ checkRateLimit
\* Lines 141-149: which branch of "Reset counters if needed" is taken at time t.
ResetKind(t) ==
  IF t - lastResetTime > oneDay THEN "day"
  ELSE IF t - lastResetTime > oneMinute THEN "minute"
  ELSE "none"

\* Lines 141-149: the counters and the window start after that branch.
ResetCounters(t) ==
  CASE ResetKind(t) = "day" -> [rc |-> 0, drc |-> 0, lrt |-> t]
    [] ResetKind(t) = "minute" -> [rc |-> 0, drc |-> dailyRequestCount, lrt |-> t]
    [] OTHER -> [rc |-> requestCount, drc |-> dailyRequestCount, lrt |-> lastResetTime]

\* Line 152: the daily limit check.
DailyLimitReached(drc) == drc >= RATE_LIMITS.requestsPerDay

\* A per-minute check that is off by one.
MinuteLimitOffByOne(rc) == rc > RATE_LIMITS.requestsPerMinute

\* Line 157: the per-minute limit check.
MinuteLimitReached(rc) == rc >= RATE_LIMITS.requestsPerMinute

\* A wait that is the time already spent in the window instead of the time left.
WaitTimeElapsed(t, lrt) == t - lrt

\* Line 158: the time checkRateLimit suspends for.
WaitTime(t, lrt) == oneMinute - (t - lrt)

\* executeWithRateLimit(operation of kind) entered at time t: checkRateLimit up to
\* its first suspension (or its throw), and the two increments when it does not suspend.
BeginCall(t, kind) ==
  LET r == ResetCounters(t) IN
  /\ rl \in {"idle", "returned", "threw"}
  /\ now' = t
  /\ callKind' = kind
  /\ lastResetTime' = r.lrt
  /\ pre' = [rc |-> requestCount, drc |-> dailyRequestCount, dayStart |-> dayStart]
  /\ callAt' = t
  /\ dayStart' = IF ResetKind(t) = "day" THEN t ELSE dayStart
  /\ tally' = [tally EXCEPT !.minute = IF ResetKind(t) = "none" THEN @ ELSE 0,
                            !.day = IF ResetKind(t) = "day" THEN 0 ELSE @]
  /\ UNCHANGED <<RATE_LIMITS, response>>
  /\ IF DailyLimitReached(r.drc)
       THEN /\ requestCount' = r.rc
            /\ dailyRequestCount' = r.drc
            /\ rl' = "threw"
            /\ thrown' = "daily"
            /\ resv' = ResetKind(t)
            /\ base' = [rc |-> r.rc, drc |-> r.drc]
            /\ UNCHANGED <<waitTime, waitFrom>>
       ELSE IF MinuteLimitReached(r.rc)
         THEN /\ requestCount' = r.rc
              /\ dailyRequestCount' = r.drc
              /\ rl' = "waiting"
              /\ thrown' = "none"
              /\ waitTime' = WaitTime(t, r.lrt)
              /\ waitFrom' = r.lrt
              /\ resv' = "wait"
              /\ base' = [rc |-> 0, drc |-> r.drc]
         ELSE /\ requestCount' = r.rc + 1
              /\ dailyRequestCount' = r.drc + 1
              /\ rl' = "inflight"
              /\ thrown' = "none"
              /\ resv' = ResetKind(t)
              /\ base' = [rc |-> r.rc, drc |-> r.drc]
              /\ UNCHANGED <<waitTime, waitFrom>>

\* The caller goes on without making a rate-limited call.
NoCall ==
  /\ rl' = "idle"
  /\ UNCHANGED <<now, requestCount, dailyRequestCount, lastResetTime, RATE_LIMITS,
                 waitTime, thrown, callKind, response, callHist>>

\* Lines 160-162 and 169-170: the timer of checkRateLimit fires, the minute counter
\* is reset, and executeWithRateLimit counts the request.
WaitDone ==
  /\ rl = "waiting"
  /\ \E late \in TimerLateness :
       /\ now' = now + waitTime + late
       /\ lastResetTime' = now + waitTime + late
  /\ requestCount' = 0 + 1
  /\ dailyRequestCount' = dailyRequestCount + 1
  /\ rl' = "inflight"
  /\ tally' = [tally EXCEPT !.minute = 0]
  /\ UNCHANGED <<RATE_LIMITS, waitTime, thrown, callKind, response,
                 pre, base, resv, waitFrom, dayStart, callAt,
                 batchVars, itemVars, calls, kept, inputVars, detailVars, skipped, usedScene, faults>>

\* An operation whose result is returned without the inter-request delay.
OpReturnNoDelay ==
  /\ rl = "inflight"
  /\ ~(outage /\ callKind = "image")
  /\ \E r \in Responses(callKind) :
       /\ IsFault(r) => MayFail
       /\ response' = r
       /\ faults' = IF IsFault(r) THEN Failed ELSE faults
  /\ now' = now
  /\ rl' = "returned"
  /\ tally' = [minute |-> tally.minute + 1, day |-> tally.day + 1, doneAt |-> now]
  /\ UNCHANGED <<requestCount, dailyRequestCount, lastResetTime, RATE_LIMITS,
                 waitTime, thrown, callKind, pre, base, resv, waitFrom, dayStart, callAt,
                 batchVars, itemVars, calls, kept, inputVars, detailVars, skipped, usedScene>>

\* Lines 173-178: the operation returns; the inter-request delay; the result is returned.
OpReturn ==
  /\ rl = "inflight"
  /\ ~(outage /\ callKind = "image")
  /\ \E r \in Responses(callKind) :
       /\ IsFault(r) => MayFail
       /\ response' = r
       /\ faults' = IF IsFault(r) THEN Failed ELSE faults
  /\ now' = now + delayBetweenRequests
  /\ rl' = "returned"
  /\ tally' = [minute |-> tally.minute + 1, day |-> tally.day + 1, doneAt |-> now]
  /\ UNCHANGED <<requestCount, dailyRequestCount, lastResetTime, RATE_LIMITS,
                 waitTime, thrown, callKind, pre, base, resv, waitFrom, dayStart, callAt,
                 batchVars, itemVars, calls, kept, inputVars, detailVars, skipped, usedScene>>

\* A refund that forgets the daily counter.
OpThrowMinuteOnly ==
  /\ rl = "inflight"
  /\ requestCount' = requestCount - 1
  /\ dailyRequestCount' = dailyRequestCount
  /\ MayFail
  /\ faults' = Failed
  /\ rl' = "threw"
  /\ thrown' = "op"
  /\ UNCHANGED <<now, lastResetTime, RATE_LIMITS, waitTime, callKind, response,
                 callHist, batchVars, itemVars, calls, kept, inputVars, detailVars, skipped, usedScene>>

\* No refund at all.
OpThrowNoRefund ==
  /\ rl = "inflight"
  /\ MayFail
  /\ faults' = Failed
  /\ rl' = "threw"
  /\ thrown' = "op"
  /\ UNCHANGED <<now, requestCount, dailyRequestCount, lastResetTime, RATE_LIMITS,
                 waitTime, callKind, response, callHist, batchVars, itemVars, calls, kept, inputVars, detailVars, skipped, usedScene>>

\* Lines 179-184: the operation throws, a quota / rate-limit error of the remote
\* service or another error; both counters are decremented and the error rethrown.
OpThrow ==
  /\ rl = "inflight"
  /\ requestCount' = requestCount - 1
  /\ dailyRequestCount' = dailyRequestCount - 1
  /\ MayFail
  /\ faults' = Failed
  /\ rl' = "threw"
  /\ thrown' \in {"op", "quota"}
  /\ UNCHANGED <<now, lastResetTime, RATE_LIMITS, waitTime, callKind, response,
                 callHist, batchVars, itemVars, calls, kept, inputVars, detailVars, skipped, usedScene>>

\* ------------------------------------------------- the generic sequential caller
\* Any caller that awaits each executeWithRateLimit before making the next one;
\* it notes the grant time of each call that returned.
Call ==
  /\ calls < MaxCalls
  /\ \E gap \in Gaps : BeginCall(now + gap, "generic")
  /\ calls' = calls + 1
  /\ kept' = IF rl = "returned" THEN Append(kept, now - delayBetweenRequests) ELSE kept
  /\ UNCHANGED <<batchVars, itemVars, faults, inputVars, detailVars, skipped, usedScene>>

\* ------------------------------------------------------ generatePhotoshootScenes
\* Lines 434-470: what generatePhotoshootScenes returns for its n-th call of the
\* product, given how its rate-limited call ended: the parsed response, or the
\* fallback scene when the call threw or the response did not parse.
SceneResult(n) ==
  IF rl = "returned" /\ response = "scene"
    THEN [id |-> n, src |-> "remote", complete |-> TRUE]
  ELSE IF rl = "returned" /\ response = "sceneNoProps"
    THEN [id |-> n, src |-> "remote", complete |-> FALSE]
  ELSE [id |-> n, src |-> "fallback", complete |-> TRUE]

\* Lines 575-587 and 640-650: the payload built from a scene.
PhotoshootContent(scene) == [prompt |-> "photoshoot", scene |-> scene.id]
\* Lines 539-574: the payload of a step that does not use the scene.
EnhancedContent == [prompt |-> "enhanced", scene |-> 0]
\* Lines 694-705: the payload with the simplified prompt.
FallbackContent == [prompt |-> "fallback", scene |-> 0]

\* A delay computed from the number of the attempt about to be made.
BackoffTimeOfNextAttempt(rc) == Min(1000 * Pow2(rc + 1), 10000)

\* Line 708: the delay before the next attempt.
BackoffTime(rc) == Min(1000 * Pow2(rc), 10000)

\* ------------------------------------------------------------------- the CSV file
\* Line 853: the lines of the file whose row the 'data' handler keeps, from line k on.
RECURSIVE KeptLines(_, _)
KeptLines(rows, k) ==
  IF k > Len(rows) THEN << >>
  ELSE (IF rows[k].complete THEN <<k>> ELSE << >>) \o KeptLines(rows, k + 1)

\* Lines 851-856: the array the 'data' handler has filled when 'end' comes.
ParsedProducts(rows) ==
  LET kept0 == KeptLines(rows, 1) IN
  [n \in 1..Len(kept0) |-> [Handle |-> rows[kept0[n]].Handle, row |-> n]]

\* The line of the file that the n-th element of products came from.
LineOf(n) == KeptLines(csv, 1)[n]

\* Lines 1033 and 1038-1045: the _generatedImages of the entry processedMap has
\* for handle h (the last one pushed), none when there is no entry.
GeneratedImagesOf(h) ==
  LET entries == {n \in 1..Len(processedProducts) : processedProducts[n].handle = h} IN
  IF entries = {} THEN << >>
  ELSE processedProducts[CHOOSE n \in entries : \A m \in entries : m <= n].images

\* The 'Image Position' of the k-th row of products: the rows of a handle are
\* numbered 1, 2, ... in file order, as in a Shopify export.
ImagePosition(k) ==
  Cardinality({j \in 1..k : products[j].Handle = products[k].Handle})

\* Lines 1046-1050: the highest 'Image Position' among the rows of handle h.
maxPosition(h) ==
  LET existingImagePositions ==
        {ImagePosition(k) : k \in {j \in 1..Len(products) : products[j].Handle = h}}
  IN  IF existingImagePositions = {} THEN 0
      ELSE CHOOSE m \in existingImagePositions : \A n \in existingImagePositions : n <= m

\* Lines 1037-1079: updatedProducts from the k-th row of allProducts on: each row,
\* followed by one image row per url when processedMap has urls for its handle,
\* the i-th of them (from 0) at position maxPosition + i + 1.
RECURSIVE UpdatedProducts(_)
UpdatedProducts(k) ==
  IF k > Len(products) THEN << >>
  ELSE LET product == products[k]
           images == GeneratedImagesOf(product.Handle)
       IN  <<[Handle |-> product.Handle, row |-> k, src |-> Null, index |-> 0,
              position |-> ImagePosition(k)]>>
             \o [j \in 1..Len(images) |->
                   [Handle |-> product.Handle, row |-> 0, src |-> images[j], index |-> j,
                    position |-> maxPosition(product.Handle) + j]]
             \o UpdatedProducts(k + 1)

\* --------------------------------------------------------------------- downloadImage
\* Lines 188-189: the locals of downloadImage before its first request.
NoDownload == [state |-> "none", retryCount |-> 0, code |-> "none", waitTime |-> 0]

\* The error codes of a failed request: name resolution, connection reset, the
\* timeout of line 197 (ECONNABORTED), a 4xx status.
DownloadErrors == {"EAI_AGAIN", "ENOTFOUND", "ECONNRESET", "ECONNABORTED", "ERR_BAD_REQUEST"}

\* A test that takes the timeout for a network error too.
isNetworkErrorOrTimeout(code) ==
  code \in {"EAI_AGAIN", "ENOTFOUND", "ECONNRESET", "ECONNABORTED"}

\* Line 213.
isNetworkError(code) == code \in {"EAI_AGAIN", "ENOTFOUND", "ECONNRESET"}

\* Line 216.
DownloadWaitTime(rc) == Min(1000 * Pow2(rc), 5000)

\* Lines 191-224: one request of downloadImage. It succeeds and the file is
\* written, or it fails: retryCount is incremented, a network error below
\* downloadMaxRetries starts the timer of line 218, any other failure is thrown
\* to processProducts, whose catch (lines 1007-1011) skips the product.
DownloadAttempt ==
  /\ pc = "download"
  /\ dl.state \in {"none", "retry"}
  /\ \/ /\ dl' = [dl EXCEPT !.state = "ok"]
        /\ UNCHANGED <<pc, now, skipped, faults>>
     \/ \E code \in DownloadErrors :
          LET rc == dl.retryCount + 1 IN
          /\ faults < MaxFaults
          /\ faults' = faults + 1
          /\ now' = IF code = "ECONNABORTED" THEN now + downloadTimeout ELSE now
          /\ IF rc < downloadMaxRetries /\ isNetworkError(code)
               THEN /\ dl' = [state |-> "wait", retryCount |-> rc, code |-> code,
                              waitTime |-> DownloadWaitTime(rc)]
                    /\ UNCHANGED <<pc, skipped>>
               ELSE /\ dl' = [state |-> "threw", retryCount |-> rc, code |-> code,
                              waitTime |-> 0]
                    /\ pc' = "loop"
                    /\ skipped' = skipped \cup {[index |-> p, at |-> "download"]}
  /\ UNCHANGED <<requestCount, dailyRequestCount, lastResetTime, RATE_LIMITS, rl,
                 waitTime, thrown, callKind, response, callHist, batchRest, itemVars,
                 calls, kept, inputVars, updatedCsv, gps, usedScene>>

\* Lines 218-219: the timer fires and the loop makes the next request.
DownloadRetry ==
  /\ pc = "download"
  /\ dl.state = "wait"
  /\ \E late \in TimerLateness : now' = now + dl.waitTime + late
  /\ dl' = [dl EXCEPT !.state = "retry"]
  /\ UNCHANGED <<requestCount, dailyRequestCount, lastResetTime, RATE_LIMITS, rl,
                 waitTime, thrown, callKind, response, callHist, batchVars, itemVars,
                 calls, kept, inputVars, updatedCsv, gps, skipped, usedScene, faults>>

\* ---------------------------------------------------------------- processProducts
\* Lines 849-879: the CSV is read to its end; when a handle is given and no
\* product has it, the promise resolves at once (lines 868-872).
CsvEnd ==
  /\ pc = "read"
  /\ IF specificHandle # "" /\ Len(filteredProducts) = 0
       THEN /\ promise' = "resolved"
            /\ pc' = "done"
       ELSE /\ pc' = "loop"
            /\ UNCHANGED promise
  /\ UNCHANGED <<p, processedProducts, uploadedUrls, metadata, csvWritten,
                 budgetVars, callHist, itemVars, calls, kept, inputVars, detailVars, skipped, usedScene, faults>>

\* Line 1027: the CSV stream fails; the promise is rejected.
CsvError ==
  /\ pc = "read"
  /\ pc' = "failed"
  /\ promise' = "rejected"
  /\ UNCHANGED <<p, processedProducts, uploadedUrls, metadata, csvWritten,
                 budgetVars, callHist, itemVars, calls, kept, inputVars, detailVars, skipped, usedScene, faults>>

\* Lines 890-907: the next product of the slice is taken and its download starts.
NextProduct ==
  /\ pc = "loop"
  /\ p < Len(productsToProcess)
  /\ p' = p + 1
  /\ pc' = "download"
  /\ uploadedUrls' = << >>
  /\ metadata' = << >>
  /\ dl' = NoDownload
  /\ UNCHANGED <<promise, processedProducts, csvWritten, updatedCsv, gps,
                 budgetVars, callHist, itemVars, calls, kept, inputVars, skipped, usedScene, faults>>

\* Lines 1021-1025: after the last product, updateCsv runs and the promise resolves.
\* With no row at all updateCsv throws at line 1097 (Object.keys(allProducts[0]))
\* inside the async 'end' handler: nothing is written and the promise stays pending.
Finish ==
  /\ pc = "loop"
  /\ p = Len(productsToProcess)
  /\ IF Len(products) = 0
       THEN /\ pc' = "crashed"
            /\ UNCHANGED <<csvWritten, promise, updatedCsv>>
       ELSE /\ csvWritten' = csvWritten + 1
            /\ updatedCsv' = UpdatedProducts(1)
            /\ promise' = "resolved"
            /\ pc' = "done"
  /\ UNCHANGED <<p, processedProducts, uploadedUrls, metadata, dl, gps,
                 budgetVars, callHist, itemVars, calls, kept, inputVars, skipped, usedScene, faults>>

\* A download failure that ends the run.
DownloadFailsRejects ==
  /\ pc = "download"
  /\ faults < MaxFaults
  /\ faults' = faults + 1
  /\ pc' = "failed"
  /\ promise' = "rejected"
  /\ skipped' = skipped \cup {[index |-> p, at |-> "download"]}
  /\ UNCHANGED <<p, processedProducts, uploadedUrls, metadata, csvWritten,
                 budgetVars, callHist, itemVars, calls, kept, inputVars, detailVars, usedScene>>

\* Lines 1007-1011: downloadImage threw; the product is skipped.
DownloadFails ==
  /\ pc = "download"
  /\ faults < MaxFaults
  /\ faults' = faults + 1
  /\ pc' = "loop"
  /\ skipped' = skipped \cup {[index |-> p, at |-> "download"]}
  /\ UNCHANGED <<promise, p, processedProducts, uploadedUrls, metadata, csvWritten,
                 budgetVars, callHist, itemVars, calls, kept, inputVars, detailVars, usedScene>>

\* Lines 903-910 and 505-515: the original is downloaded; generateImages starts
\* and calls generatePhotoshootScenes.
DownloadOk ==
  /\ pc = "download"
  /\ pc' = "scene"
  /\ generatedImages' = << >>
  /\ photoshootScenes' = NoScene
  /\ scenesFile' = NoScene
  /\ i' = 0
  /\ currentScene' = NoScene
  /\ currentContentArray' = NoContent
  /\ retryCount' = 0
  /\ success' = FALSE
  /\ sceneRegenerateCount' = 0
  /\ backoff' = 0
  /\ attempts' = 0
  /\ sceneCalls' = 1
  /\ BeginCall(now, "scene")
  /\ usedScene' = << >>
  /\ UNCHANGED <<promise, p, processedProducts, uploadedUrls, metadata, csvWritten,
                 calls, kept, inputVars, detailVars, skipped, faults>>

\* ------------------------------------------------------------------ generateImages
\* Lines 515-532: the scene call has ended; the scene is written to
\* photoshoot_scenes.json and the loop over the steps starts.
SceneResolved ==
  /\ pc = "scene"
  /\ rl \in {"returned", "threw"}
  /\ photoshootScenes' = SceneResult(sceneCalls)
  /\ scenesFile' = SceneResult(sceneCalls)
  /\ i' = 1
  /\ pc' = "build"
  /\ NoCall
  /\ UNCHANGED <<generatedImages, currentScene, currentContentArray, retryCount, success,
                 sceneRegenerateCount, backoff, sceneCalls, attempts,
                 promise, p, processedProducts, uploadedUrls, metadata, csvWritten,
                 calls, kept, inputVars, detailVars, skipped, usedScene, faults>>

\* A step that starts from the scene and the regeneration counter the step
\* before it ended with.
BuildPayloadCarriesOver ==
  /\ pc = "build"
  /\ i <= NumSteps
  /\ attempts' = 0
  /\ IF imageTypes[i].usesScene /\ ~photoshootScenes.complete
       THEN /\ i' = i + 1
            /\ pc' = "build"
            /\ currentScene' = photoshootScenes
            /\ UNCHANGED <<currentContentArray, retryCount, success, sceneRegenerateCount>>
       ELSE /\ pc' = "while"
            /\ currentScene' = IF imageTypes[i].usesScene
                                 THEN (IF currentScene.complete THEN currentScene
                                                                ELSE photoshootScenes)
                                 ELSE NoScene
            /\ currentContentArray' =
                 IF imageTypes[i].usesScene
                   THEN PhotoshootContent(IF currentScene.complete THEN currentScene
                                                                   ELSE photoshootScenes)
                   ELSE EnhancedContent
            /\ retryCount' = 0
            /\ success' = FALSE
            /\ sceneRegenerateCount' =
                 IF imageTypes[i].usesScene THEN sceneRegenerateCount ELSE 0
            /\ UNCHANGED i
  /\ UNCHANGED <<photoshootScenes, scenesFile, generatedImages, backoff, sceneCalls,
                 batchRest, budgetVars, callHist, calls, kept, inputVars, detailVars, skipped, usedScene, faults>>

\* Lines 532-602: the payload of step i is built and its retry locals are set.
\* Building the photoshoot prompt from a scene without props throws (line 496);
\* the catch of line 722 goes on to the next step.
BuildPayload ==
  /\ pc = "build"
  /\ i <= NumSteps
  /\ attempts' = 0
  /\ IF imageTypes[i].usesScene /\ ~photoshootScenes.complete
       THEN /\ i' = i + 1
            /\ pc' = "build"
            /\ currentScene' = photoshootScenes
            /\ UNCHANGED <<currentContentArray, retryCount, success, sceneRegenerateCount>>
       ELSE /\ pc' = "while"
            /\ currentScene' = IF imageTypes[i].usesScene THEN photoshootScenes ELSE NoScene
            /\ currentContentArray' = IF imageTypes[i].usesScene
                                        THEN PhotoshootContent(photoshootScenes)
                                        ELSE EnhancedContent
            /\ retryCount' = 0
            /\ success' = FALSE
            /\ sceneRegenerateCount' = 0
            /\ UNCHANGED i
  /\ UNCHANGED <<photoshootScenes, scenesFile, generatedImages, backoff, sceneCalls,
                 batchRest, budgetVars, callHist, calls, kept, inputVars, detailVars, skipped, usedScene, faults>>

\* A loop that allows one attempt too many.
LoopContinuesInclusive == retryCount <= maxRetries /\ ~success

\* Line 604: the condition of the retry loop.
LoopContinues == retryCount < maxRetries /\ ~success

\* Lines 604-609: the loop makes one more attempt.
Attempt ==
  /\ pc = "while"
  /\ LoopContinues
  /\ pc' = "gen"
  /\ attempts' = attempts + 1
  /\ BeginCall(now, "image")
  /\ UNCHANGED <<photoshootScenes, scenesFile, generatedImages, i, currentScene,
                 currentContentArray, retryCount, success, sceneRegenerateCount, backoff,
                 sceneCalls, promise, p, processedProducts, uploadedUrls, metadata,
                 csvWritten, calls, kept, inputVars, detailVars, skipped, usedScene, faults>>

\* A loop over the steps that stops at the first step that failed.
StepEndAborts ==
  /\ pc = "while"
  /\ ~LoopContinues
  /\ pc' = "build"
  /\ i' = IF success THEN i + 1 ELSE NumSteps + 1
  /\ UNCHANGED <<photoshootScenes, scenesFile, generatedImages, currentScene,
                 currentContentArray, retryCount, success, sceneRegenerateCount, backoff,
                 sceneCalls, attempts, batchRest, budgetVars, callHist, calls, kept,
                 inputVars, detailVars, skipped, usedScene, faults>>

\* Lines 715-733: the loop of step i has ended; the next step follows.
StepEnd ==
  /\ pc = "while"
  /\ ~LoopContinues
  /\ pc' = "build"
  /\ i' = i + 1
  /\ UNCHANGED <<photoshootScenes, scenesFile, generatedImages, currentScene,
                 currentContentArray, retryCount, success, sceneRegenerateCount, backoff,
                 sceneCalls, attempts, batchRest, budgetVars, callHist, calls, kept, inputVars, detailVars, skipped, usedScene, faults>>

\* An array that takes its new element at the front.
Unshifted(self, x) == <<x>> \o self

\* Line 620: Array.prototype.push.
Pushed(self, x) == Append(self, x)

\* Lines 612-627: the response holds an image; the file is written and pushed.
GenImage ==
  /\ pc = "gen"
  /\ rl = "returned"
  /\ response = "image"
  /\ generatedImages' = Pushed(generatedImages, i)
  /\ usedScene' = Append(usedScene, currentContentArray.scene)
  /\ success' = TRUE
  /\ pc' = "while"
  /\ NoCall
  /\ UNCHANGED <<photoshootScenes, scenesFile, i, currentScene, currentContentArray,
                 retryCount, sceneRegenerateCount, backoff, sceneCalls, attempts,
                 promise, p, processedProducts, uploadedUrls, metadata, csvWritten,
                 calls, kept, inputVars, detailVars, skipped, faults>>

\* Lines 629-659: the response holds no image; retryCount is incremented and, for
\* a step that uses the scene, the scene is regenerated after the first failure.
GenNoImage ==
  /\ pc = "gen"
  /\ rl = "returned"
  /\ response = "noimage"
  /\ retryCount' = retryCount + 1
  /\ IF /\ imageTypes[i].usesScene
        /\ retryCount + 1 = 1
        /\ sceneRegenerateCount < maxSceneRegenerates
       THEN /\ pc' = "regenNoImage"
            /\ sceneCalls' = sceneCalls + 1
            /\ BeginCall(now, "scene")
       ELSE /\ pc' = "while"
            /\ NoCall
            /\ UNCHANGED sceneCalls
  /\ UNCHANGED <<photoshootScenes, scenesFile, generatedImages, i, currentScene,
                 currentContentArray, success, sceneRegenerateCount, backoff, attempts,
                 promise, p, processedProducts, uploadedUrls, metadata, csvWritten,
                 calls, kept, inputVars, detailVars, skipped, usedScene, faults>>

\* Lines 637-657: the regeneration after a response without image has ended. A
\* scene without props makes the prompt builder throw, which line 655 catches.
RegeneratedAfterNoImage ==
  /\ pc = "regenNoImage"
  /\ rl \in {"returned", "threw"}
  /\ LET s == SceneResult(sceneCalls) IN
       /\ currentScene' = s
       /\ IF s.complete
            THEN /\ currentContentArray' = PhotoshootContent(s)
                 /\ sceneRegenerateCount' = sceneRegenerateCount + 1
                 /\ retryCount' = retryCount - 1
            ELSE UNCHANGED <<currentContentArray, sceneRegenerateCount, retryCount>>
  /\ pc' = "while"
  /\ NoCall
  /\ UNCHANGED <<photoshootScenes, scenesFile, generatedImages, i, success, backoff,
                 sceneCalls, attempts, promise, p, processedProducts, uploadedUrls,
                 metadata, csvWritten, calls, kept, inputVars, detailVars, skipped, usedScene, faults>>

\* Lines 693-710, with retryCount as it stands at line 694: the simplified prompt
\* on the last retry, then the backoff timer.
FallbackAndBackoff(rc, content) ==
  /\ currentContentArray' = IF rc = maxRetries - 1 THEN FallbackContent ELSE content
  /\ backoff' = BackoffTime(rc)
  /\ pc' = "backoff"

\* Lines 661-712: the call threw (the operation, or checkRateLimit); retryCount is
\* incremented; below maxRetries a step that uses the scene regenerates it at the
\* second failure, and the backoff follows.
GenThrew ==
  /\ pc = "gen"
  /\ rl = "threw"
  /\ retryCount' = retryCount + 1
  /\ IF retryCount + 1 < maxRetries
       THEN IF /\ imageTypes[i].usesScene
               /\ retryCount + 1 = 2
               /\ sceneRegenerateCount < maxSceneRegenerates
              THEN /\ pc' = "regenThrew"
                   /\ sceneCalls' = sceneCalls + 1
                   /\ BeginCall(now, "scene")
                   /\ UNCHANGED <<currentContentArray, backoff>>
              ELSE /\ FallbackAndBackoff(retryCount + 1, currentContentArray)
                   /\ NoCall
                   /\ UNCHANGED sceneCalls
       ELSE /\ pc' = "while"
            /\ NoCall
            /\ UNCHANGED <<currentContentArray, backoff, sceneCalls>>
  /\ UNCHANGED <<photoshootScenes, scenesFile, generatedImages, i, currentScene,
                 success, sceneRegenerateCount, attempts,
                 promise, p, processedProducts, uploadedUrls, metadata, csvWritten,
                 calls, kept, inputVars, detailVars, skipped, usedScene, faults>>

\* Lines 670-710: the regeneration after a throw has ended; then the simplified
\* prompt if retryCount is still maxRetries - 1, and the backoff.
RegeneratedAfterThrow ==
  /\ pc = "regenThrew"
  /\ rl \in {"returned", "threw"}
  /\ LET s == SceneResult(sceneCalls) IN
       /\ currentScene' = s
       /\ IF s.complete
            THEN /\ sceneRegenerateCount' = sceneRegenerateCount + 1
                 /\ retryCount' = retryCount - 1
                 /\ FallbackAndBackoff(retryCount - 1, PhotoshootContent(s))
            ELSE /\ UNCHANGED <<sceneRegenerateCount, retryCount>>
                 /\ FallbackAndBackoff(retryCount, currentContentArray)
  /\ NoCall
  /\ UNCHANGED <<photoshootScenes, scenesFile, generatedImages, i, success,
                 sceneCalls, attempts, promise, p, processedProducts, uploadedUrls,
                 metadata, csvWritten, calls, kept, inputVars, detailVars, skipped, usedScene, faults>>

\* Line 710: the backoff timer fires.
BackoffDone ==
  /\ pc = "backoff"
  /\ now' = now + backoff
  /\ pc' = "while"
  /\ UNCHANGED <<requestCount, dailyRequestCount, lastResetTime, RATE_LIMITS, rl,
                 waitTime, thrown, callKind, response, callHist,
                 promise, p, processedProducts, uploadedUrls, metadata, csvWritten,
                 itemVars, calls, kept, inputVars, detailVars, skipped, usedScene, faults>>

\* Lines 970-991: uploadedUrls[k] || null.
SlotUrl(k) == IF k <= Len(uploadedUrls) THEN uploadedUrls[k] ELSE Null

\* Lines 1002 and 1013: the product as it is pushed, with its _generatedImages.
Processed(product, urls) == [handle |-> product.Handle, row |-> product.row, images |-> urls]

\* A test that takes the upload branch with no file at all.
HasGeneratedAlways == Len(generatedImages) >= 0

\* Line 912: generatedImagePaths.length > 0.
HasGenerated == Len(generatedImages) > 0

\* Lines 735 and 910-925: generateImages returns its files; with none, the product
\* is pushed as it is (line 1013).
GenerateImagesReturns ==
  /\ pc = "build"
  /\ i > NumSteps
  /\ IF HasGenerated
       THEN /\ pc' = "upload"
            /\ UNCHANGED processedProducts
       ELSE /\ pc' = "loop"
            /\ processedProducts' =
                 Append(processedProducts, Processed(productsToProcess[p], << >>))
  /\ UNCHANGED <<promise, p, uploadedUrls, metadata, csvWritten,
                 budgetVars, callHist, itemVars, calls, kept, inputVars, detailVars, skipped, usedScene, faults>>

\* A fallback that passes the local path off as a published url.
UploadedUrlNeverLocal(k, ok) ==
  [art |-> generatedImages[k], title |-> imageTypeNames[k], local |-> FALSE]

\* Lines 936-944: the url pushed for file k: the secure_url of the upload made
\* under the k-th title, or file://<path of file k> when the upload gave none.
UploadedUrl(k, ok) ==
  [art |-> generatedImages[k], title |-> imageTypeNames[k], local |-> ~ok]

\* Lines 925-945: file k of generatedImagePaths is uploaded under the k-th title;
\* a failed upload leaves the local path in its place.
Upload ==
  /\ pc = "upload"
  /\ Len(uploadedUrls) < Len(generatedImages)
  /\ LET k == Len(uploadedUrls) + 1 IN
       \E ok \in BOOLEAN :
         /\ ~ok => faults < MaxFaults
         /\ faults' = IF ok THEN faults ELSE faults + 1
         /\ uploadedUrls' = Append(uploadedUrls, UploadedUrl(k, ok))
  /\ UNCHANGED <<pc, promise, p, processedProducts, metadata, csvWritten,
                 budgetVars, callHist, itemVars, calls, kept, inputVars, detailVars, skipped, usedScene>>

\* Lines 950-1013: metadata.imageTypes takes the URLs by position, the product
\* keeps them as _generatedImages and is pushed to processedProducts.
SaveMetadata ==
  /\ pc = "upload"
  /\ Len(uploadedUrls) = Len(generatedImages)
  /\ metadata' = [k \in 1..Len(metadataTypes) |->
                   IF imageTypes[k].usesScene
                     THEN [type |-> metadataTypes[k], url |-> SlotUrl(k), scene |-> scenesFile]
                     ELSE [type |-> metadataTypes[k], url |-> SlotUrl(k)]]
  /\ processedProducts' =
       Append(processedProducts, Processed(productsToProcess[p], uploadedUrls))
  /\ pc' = "loop"
  /\ UNCHANGED <<promise, p, uploadedUrls, csvWritten,
                 budgetVars, callHist, itemVars, calls, kept, inputVars, detailVars, skipped, usedScene, faults>>

\* Lines 999 and 1007-1011: saveMetadata throws (writeFileSync fails); the catch
\* around the download logs the error and goes on to the next product
\* (continue), before _generatedImages is set and before the push of line 1013.
SaveMetadataFails ==
  /\ pc = "upload"
  /\ Len(uploadedUrls) = Len(generatedImages)
  /\ faults < MaxFaults
  /\ faults' = faults + 1
  /\ pc' = "loop"
  /\ skipped' = skipped \cup {[index |-> p, at |-> "metadata"]}
  /\ UNCHANGED <<promise, p, processedProducts, uploadedUrls, metadata, csvWritten,
                 budgetVars, callHist, itemVars, calls, kept, inputVars, detailVars, usedScene>>

\* ------------------------------------------- generatePhotoshootScenes in detail
\* Lines 34-43: the fields of a PhotoshootScene.
SceneFields ==
  {"aesthetic", "setting", "mood", "lighting", "styling", "model_description",
   "composition", "props"}

\* Line 456.
fallbackAesthetics == {"Minimalist Modern", "Old money", "French new wave"}

\* Lines 459-469: the scene the catch returns; keys are the fields the object has.
FallbackScene(label) ==
  [keys |-> SceneFields,
   aesthetic |-> label,
   setting |-> "Clean, elegant studio with neutral backdrop",
   mood |-> "Professional and sophisticated",
   lighting |-> "Soft natural lighting",
   styling |-> "Clean, minimal accessories",
   model_description |-> "Confident model with natural pose",
   composition |-> "Center-focused with negative space",
   props |-> <<"minimal furniture", "clean lines", "elegant decor">>]

\* A scene of the remote model with every field filled.
RemoteScene ==
  [keys |-> SceneFields,
   aesthetic |-> "remote aesthetic",
   setting |-> "remote setting",
   mood |-> "remote mood",
   lighting |-> "remote lighting",
   styling |-> "remote styling",
   model_description |-> "remote model",
   composition |-> "remote composition",
   props |-> <<"remote prop">>]

\* The empty value of a field: an empty list for props, an empty string otherwise.
EmptyValue(f) == IF f = "props" THEN << >> ELSE ""

\* An object with no field at all.
NoFields ==
  [keys |-> {}, aesthetic |-> "", setting |-> "", mood |-> "", lighting |-> "",
   styling |-> "", model_description |-> "", composition |-> "", props |-> << >>]

\* Lines 446-450: what JSON.parse gives for a response text that parses, returned
\* as it is: the full scene, a scene with one field empty, or a scene with one
\* field absent. A "scene" response has its props, a "sceneNoProps" one has not.
RemoteScenes(r) ==
  IF r = "scene"
    THEN {RemoteScene}
           \cup {[RemoteScene EXCEPT ![f] = EmptyValue(f)] : f \in SceneFields}
           \cup {[RemoteScene EXCEPT !.keys = SceneFields \ {f}, ![f] = EmptyValue(f)] :
                   f \in SceneFields \ {"props"}}
  ELSE IF r = "sceneNoProps"
    THEN {[RemoteScene EXCEPT !.keys = SceneFields \ {"props"}, !.props = << >>]}
  ELSE {}

\* A generatePhotoshootScenes that did not return yet.
NoSceneCall == [state |-> "idle", body |-> TRUE, scene |-> NoFields, prompt |-> "none"]

\* Lines 313-317 and 434-444: generatePhotoshootScenes is called for a product.
\* Line 317 calls replace on product['Body (HTML)'] before the try of line 385:
\* for a row without that column it throws a TypeError to the caller. Otherwise
\* the rate-limited call to the model is made.
ScenesCalled ==
  /\ gps.state \in {"idle", "raised"} \/ (gps.state = "returned" /\ gps.prompt # "none")
  /\ calls < MaxCalls
  /\ calls' = calls + 1
  /\ \E body \in BOOLEAN :
       IF body
         THEN /\ gps' = [NoSceneCall EXCEPT !.state = "called"]
              /\ BeginCall(now, "scene")
         ELSE /\ gps' = [NoSceneCall EXCEPT !.state = "raised", !.body = FALSE]
              /\ UNCHANGED <<budgetVars, callHist>>
  /\ UNCHANGED <<batchVars, itemVars, kept, inputVars, dl, updatedCsv, skipped,
                 usedScene, faults>>

\* Lines 446-470: the call has ended. A response that parses is returned as it
\* is; a call that threw (the model, or checkRateLimit) and a response that does
\* not parse give the fallback scene with one of the three labels.
ScenesReturned ==
  /\ gps.state = "called"
  /\ rl \in {"returned", "threw"}
  /\ \E s \in (IF rl = "returned" /\ RemoteScenes(response) # {}
                 THEN RemoteScenes(response)
                 ELSE {FallbackScene(label) : label \in fallbackAesthetics}) :
       gps' = [gps EXCEPT !.state = "returned", !.scene = s]
  /\ NoCall
  /\ UNCHANGED <<batchVars, itemVars, calls, kept, inputVars, dl, updatedCsv, skipped,
                 usedScene, faults>>

\* Lines 473-502: createPhotoshootPrompt interpolates the seven text fields as
\* they are and calls join on props; it throws when the scene has no props.
CreatePhotoshootPrompt(scene) == IF "props" \in scene.keys THEN "built" ELSE "threw"

\* Lines 575-592: the caller builds the payload of a scene step from the scene.
PromptBuilt ==
  /\ gps.state = "returned"
  /\ gps.prompt = "none"
  /\ gps' = [gps EXCEPT !.prompt = CreatePhotoshootPrompt(gps.scene)]
  /\ UNCHANGED <<budgetVars, callHist, batchVars, itemVars, calls, kept, inputVars,
                 dl, updatedCsv, skipped, usedScene, faults>>

\* ------------------------------------------------------------------- specifications
\* Lines 48-50: the state after construction, before processProducts is called.
InitCommon ==
  /\ now = 0
  /\ requestCount = 0
  /\ dailyRequestCount = 0
  /\ lastResetTime = 0
  /\ rl = "idle"
  /\ waitTime = 0
  /\ thrown = "none"
  /\ response = "none"
  /\ pc = "read"
  /\ promise = "pending"
  /\ p = 0
  /\ processedProducts = << >>
  /\ uploadedUrls = << >>
  /\ metadata = << >>
  /\ csvWritten = 0
  /\ photoshootScenes = NoScene
  /\ scenesFile = NoScene
  /\ generatedImages = << >>
  /\ i = 0
  /\ currentScene = NoScene
  /\ currentContentArray = NoContent
  /\ retryCount = 0
  /\ success = FALSE
  /\ sceneRegenerateCount = 0
  /\ backoff = 0
  /\ calls = 0
  /\ pre = [rc |-> 0, drc |-> 0, dayStart |-> 0]
  /\ base = [rc |-> 0, drc |-> 0]
  /\ resv = "none"
  /\ waitFrom = 0
  /\ dayStart = 0
  /\ callAt = 0
  /\ tally = [minute |-> 0, day |-> 0, doneAt |-> undefined]
  /\ kept = << >>
  /\ sceneCalls = 0
  /\ attempts = 0
  /\ faults = 0
  /\ skipped = {}
  /\ usedScene = << >>
  /\ dl = NoDownload
  /\ updatedCsv = << >>
  /\ gps = NoSceneCall

\* Lines 54-59: the limits are read from the environment; the budget alone is
\* exercised with every pair of small limits.
InitBudget ==
  /\ InitCommon
  /\ callKind = "generic"
  /\ RATE_LIMITS \in [requestsPerMinute : 1..MaxPerMinute, requestsPerDay : 1..MaxPerDay]
  /\ products = << >>
  /\ csv = << >>
  /\ startIndex = 0
  /\ limit = undefined
  /\ specificHandle = ""
  /\ outage = FALSE

\* Lines 54-59 and 837-857: the batch runs with small limits or with the defaults,
\* over a CSV of three rows, two of them variants of one product.
Init ==
  /\ InitCommon
  /\ callKind = "none"
  /\ csv = << [Handle |-> "h1", complete |-> TRUE], [Handle |-> "h1", complete |-> TRUE],
              [Handle |-> "h2", complete |-> TRUE] >>
  /\ products = << [Handle |-> "h1", row |-> 1], [Handle |-> "h1", row |-> 2],
                   [Handle |-> "h2", row |-> 3] >>
  /\ startIndex = 0
  /\ limit = undefined
  /\ specificHandle = ""
  /\ outage \in BOOLEAN
  /\ RATE_LIMITS \in [requestsPerMinute : {MaxPerMinute, defaultRequestsPerMinute},
                      requestsPerDay : {MaxPerDay, defaultRequestsPerDay}]

\* Lines 837-857: processProducts alone, with every small CSV and every choice of
\* startIndex, limit and handle.
InitBatch ==
  /\ InitCommon
  /\ callKind = "none"
  /\ RATE_LIMITS = [requestsPerMinute |-> defaultRequestsPerMinute,
                    requestsPerDay |-> defaultRequestsPerDay]
  /\ \E n \in 0..MaxRows : \E f \in [1..n -> Handles] :
       /\ csv = [k \in 1..n |-> [Handle |-> f[k], complete |-> TRUE]]
       /\ products = [k \in 1..n |-> [Handle |-> f[k], row |-> k]]
  /\ startIndex \in (0 - 1)..(MaxRows + 1)
  /\ limit \in {undefined} \cup 0..(MaxRows + 1)
  /\ specificHandle \in {"", "h1", "h4"}
  /\ outage = FALSE

\* Lines 903-1013 taken as one step, for a product whose download succeeded:
\* generateImages returned no file (the product is pushed as it is), or the
\* files were uploaded and the metadata saved (it is pushed with its urls), or
\* saveMetadata threw (the catch of line 1007 skips it).
ProductProcessed ==
  /\ pc = "download"
  /\ pc' = "loop"
  /\ \/ /\ \E urls \in {<< >>, << [art |-> 1, title |-> imageTypeNames[1], local |-> FALSE] >>} :
            processedProducts' = Append(processedProducts, Processed(productsToProcess[p], urls))
        /\ UNCHANGED <<skipped, faults>>
     \/ /\ faults < MaxFaults
        /\ faults' = faults + 1
        /\ skipped' = skipped \cup {[index |-> p, at |-> "metadata"]}
        /\ UNCHANGED processedProducts
  /\ UNCHANGED <<promise, p, uploadedUrls, metadata, csvWritten,
                 budgetVars, callHist, itemVars, calls, kept, inputVars, detailVars, usedScene>>

NextBatch ==
  CsvEnd \/ CsvError \/ NextProduct \/ DownloadFails \/ ProductProcessed \/ Finish

SpecBatch == InitBatch /\ [][NextBatch]_vars

\* Lines 837-857: processProducts with its default arguments over every small
\* CSV file, rows without Image Src or Title included, downloadImage in detail.
InitFiles ==
  /\ InitCommon
  /\ callKind = "none"
  /\ RATE_LIMITS = [requestsPerMinute |-> defaultRequestsPerMinute,
                    requestsPerDay |-> defaultRequestsPerDay]
  /\ \E n \in 0..MaxRows :
       csv \in [1..n -> [Handle : {"h1", "h2"}, complete : BOOLEAN]]
  /\ products = ParsedProducts(csv)
  /\ startIndex = 0
  /\ limit = undefined
  /\ specificHandle = ""
  /\ outage = FALSE

NextFiles ==
  \/ CsvEnd \/ CsvError \/ NextProduct \/ DownloadAttempt \/ DownloadRetry
  \/ (dl.state = "ok" /\ ProductProcessed) \/ Finish

\* The run is scheduled as long as it has a step to take.
SpecFiles == InitFiles /\ [][NextFiles]_vars /\ WF_vars(NextFiles)

\* Lines 54-59: generatePhotoshootScenes alone, under every pair of small limits.
InitScene ==
  /\ InitCommon
  /\ callKind = "none"
  /\ RATE_LIMITS \in [requestsPerMinute : 1..MaxPerMinute, requestsPerDay : 1..MaxPerDay]
  /\ products = << >>
  /\ csv = << >>
  /\ startIndex = 0
  /\ limit = undefined
  /\ specificHandle = ""
  /\ outage = FALSE

NextScene ==
  ScenesCalled \/ WaitDone \/ OpReturn \/ OpThrow \/ ScenesReturned \/ PromptBuilt

SpecScene == InitScene /\ [][NextScene]_vars

\* Lines 504-740: generateImages for the first product of the file (limit 1),
\* with the default limits, up to its return.
InitItem ==
  /\ InitCommon
  /\ callKind = "none"
  /\ RATE_LIMITS = [requestsPerMinute |-> defaultRequestsPerMinute,
                    requestsPerDay |-> defaultRequestsPerDay]
  /\ csv = << [Handle |-> "h1", complete |-> TRUE], [Handle |-> "h1", complete |-> TRUE],
              [Handle |-> "h2", complete |-> TRUE] >>
  /\ products = ParsedProducts(csv)
  /\ startIndex = 0
  /\ limit = 1
  /\ specificHandle = ""
  /\ outage = FALSE

NextItem ==
  \/ CsvEnd \/ NextProduct \/ DownloadOk
  \/ SceneResolved \/ BuildPayload \/ Attempt \/ StepEnd
  \/ GenImage \/ GenNoImage \/ RegeneratedAfterNoImage
  \/ GenThrew \/ RegeneratedAfterThrow \/ BackoffDone
  \/ GenerateImagesReturns \/ OpReturn \/ OpThrow

SpecItem == InitItem /\ [][NextItem]_vars

NextBudget == Call \/ WaitDone \/ OpReturn \/ OpThrow

SpecBudget == InitBudget /\ [][NextBudget]_vars

Next ==
  \/ CsvEnd \/ CsvError \/ NextProduct \/ Finish \/ DownloadFails \/ DownloadOk
  \/ SceneResolved \/ BuildPayload \/ Attempt \/ StepEnd
  \/ GenImage \/ GenNoImage \/ RegeneratedAfterNoImage
  \/ GenThrew \/ RegeneratedAfterThrow \/ BackoffDone
  \/ GenerateImagesReturns \/ Upload \/ SaveMetadata \/ SaveMetadataFails
  \/ WaitDone \/ OpReturn \/ OpThrow

Spec == Init /\ [][Next]_vars

\* =================================================================== claims
BetweenCalls == rl \in {"idle", "returned", "threw"}
OpThrew == rl = "threw" /\ thrown \in {"op", "quota"}

\* C1: between two rate-limited calls, requestCount never exceeds requestsPerMinute
\* and dailyRequestCount never exceeds requestsPerDay.
C1_CountersWithinLimits ==
  BetweenCalls =>
    /\ requestCount <= RATE_LIMITS.requestsPerMinute
    /\ dailyRequestCount <= RATE_LIMITS.requestsPerDay

\* Both limits are reached, the last reservation having waited for the minute window.
C1_Witness ==
  /\ rl = "returned"
  /\ resv = "wait"
  /\ requestCount = RATE_LIMITS.requestsPerMinute
  /\ dailyRequestCount = RATE_LIMITS.requestsPerDay

\* C6 (as claimed): when the operation throws, both counters end with the values
\* they had immediately before the reservation was attempted, whatever time
\* elapsed since the last window reset.
C6_RoundTripAlways ==
  OpThrew => (requestCount = pre.rc /\ dailyRequestCount = pre.drc)

\* C6 (amended): when the operation throws, both counters end with their
\* pre-reservation values unless the reservation rolled a window over: after a
\* minute rollover or a minute-limit wait requestCount ends at 0 and
\* dailyRequestCount at its pre-reservation value, after a day rollover both end at 0.
C6_RoundTripModuloRollover ==
  OpThrew =>
    /\ resv = "none" => (requestCount = pre.rc /\ dailyRequestCount = pre.drc)
    /\ resv \in {"minute", "wait"} => (requestCount = 0 /\ dailyRequestCount = pre.drc)
    /\ resv = "day" => (requestCount = 0 /\ dailyRequestCount = 0)

\* A refund of a reservation that found both counters positive and rolled nothing over.
C6_Witness == OpThrew /\ resv = "none" /\ pre.rc > 0 /\ pre.drc > 0

\* C8: a reservation that finds requestCount at requestsPerMinute is suspended for
\* 60 s minus the time since the window start, so its remote call never starts
\* before the window has elapsed; it then proceeds with requestCount = 1. A call
\* that starts without suspension found requestCount below the limit.
C8_MinuteLimitSuspends ==
  /\ rl = "waiting" =>
       /\ pre.rc = RATE_LIMITS.requestsPerMinute
       /\ waitTime = oneMinute - (callAt - waitFrom)
       /\ waitTime >= 0
  /\ (rl = "inflight" /\ resv = "wait") =>
       /\ now >= waitFrom + oneMinute
       /\ requestCount = 1
       /\ lastResetTime = now
  /\ (rl = "inflight" /\ resv = "none") => pre.rc < RATE_LIMITS.requestsPerMinute

\* Scenario A: requestsPerMinute = 2, the third of three back-to-back reservations
\* has waited for the rollover and holds the first request of the new window.
C8_Witness ==
  /\ RATE_LIMITS.requestsPerMinute = 2
  /\ calls = 3
  /\ callAt = 2 * delayBetweenRequests
  /\ rl = "inflight"
  /\ resv = "wait"
  /\ requestCount = 1
  /\ now >= oneMinute

\* C9 (as claimed): a reservation made more than 24 h after the start of the
\* current day window resets both counters to 0, whatever minute rollovers
\* happened since that start.
C9_DayRolloverResetsBoth ==
  (calls > 0 /\ callAt - pre.dayStart > oneDay) => (base.rc = 0 /\ base.drc = 0)

\* C10 (as claimed): in any interval of 60 seconds at most requestsPerMinute
\* reservations are granted and kept.
C10_RollingMinute ==
  \A g \in 1..Len(kept) :
    Cardinality({h \in 1..Len(kept) : kept[g] <= kept[h] /\ kept[h] < kept[g] + oneMinute})
      <= RATE_LIMITS.requestsPerMinute

\* The positions at which a rate-limited call of generateImages is awaited.
CallStates == {"scene", "gen", "regenNoImage", "regenThrew"}

\* C2 (as claimed): once a reservation is refused because the daily counter has
\* reached requestsPerDay, the run aborts: the next step rejects the promise of
\* processProducts, and nothing else (no retry, no fallback scene, no further
\* step or product) follows.
C2_DailyLimitAbortsRun ==
  [][(rl = "threw" /\ thrown = "daily") => (promise' = "rejected" /\ pc' = "failed")]_vars

\* C3 (as claimed): the result of every product whose reference image was
\* obtained holds exactly one entry per declared step, none missing and none twice.
C3_OneEntryPerDeclaredStep ==
  \A n \in 1..Len(processedProducts) :
    LET images == processedProducts[n].images IN
      /\ Len(images) = NumSteps
      /\ \A k \in 1..NumSteps : \E m \in 1..Len(images) : images[m].art = k

\* C4 (as claimed): the url recorded in metadata slot k is the url of the file step
\* k generated, or null when step k failed, and the file of step k is uploaded
\* under the title of step k.
C4_SlotHoldsItsOwnStep ==
  /\ \A k \in 1..Len(metadata) :
       IF \E m \in 1..Len(generatedImages) : generatedImages[m] = k
         THEN metadata[k].url.art = k
         ELSE metadata[k].url = Null
  /\ \A u \in 1..Len(uploadedUrls) :
       uploadedUrls[u].title = imageTypeNames[uploadedUrls[u].art]

\* C5: a step that does not use the scene and whose calls all fail makes exactly
\* maxRetries = 3 attempts and ends without success; no step makes an attempt or
\* records a success once retryCount has reached maxRetries.
C5_ThreeAttemptsThenFailed ==
  /\ retryCount <= maxRetries
  /\ success => retryCount < maxRetries
  /\ (pc \in {"while", "gen", "backoff"} /\ ~imageTypes[i].usesScene) =>
       /\ attempts <= maxRetries
       /\ (pc = "while" /\ ~success /\ retryCount >= maxRetries) => attempts = maxRetries
       /\ (pc = "while" /\ ~success /\ attempts = maxRetries) => retryCount = maxRetries

\* A step without scene has failed three times, by a throw and by an empty response.
C5_Witness ==
  /\ pc = "while"
  /\ i = 1
  /\ ~success
  /\ retryCount = maxRetries
  /\ attempts = maxRetries
  /\ response = "noimage"
  /\ thrown = "op"

\* C7 (as claimed): after every failed generation attempt, whether the call threw
\* or returned a response without image, both counters equal their values
\* before the attempt.
C7_FailedAttemptRefunded ==
  (pc = "gen" /\ (rl = "threw" \/ (rl = "returned" /\ response = "noimage"))) =>
    (requestCount = pre.rc /\ dailyRequestCount = pre.drc)

\* C7 (amended): only an attempt whose call threw leaves the budget unconsumed:
\* both counters are back at the values they had after the reservation's window
\* handling and before its increment. An attempt whose call returned keeps both
\* counters incremented by one, with an image in the response or without, and so
\* does a scene call whatever its response.
C7_OnlyThrownCallsRefunded ==
  /\ (pc \in CallStates /\ rl = "threw") =>
       (requestCount = base.rc /\ dailyRequestCount = base.drc)
  /\ (pc \in CallStates /\ rl = "returned") =>
       (requestCount = base.rc + 1 /\ dailyRequestCount = base.drc + 1)

\* A response without image has come back and both counters stay incremented.
C7_Witness ==
  /\ pc = "gen"
  /\ rl = "returned"
  /\ response = "noimage"
  /\ resv = "none"
  /\ requestCount = pre.rc + 1
  /\ dailyRequestCount = pre.drc + 1

\* C11 (as claimed): a generation call that fails with a quota / rate-limit error
\* of the service is not counted among the attempts of its step: retryCount stays
\* as it is and the flow waits 60 s before the same step is attempted again.
C11_QuotaErrorNotCounted ==
  [][(pc = "gen" /\ rl = "threw" /\ thrown = "quota") =>
       (retryCount' = retryCount /\ i' = i /\ pc' = "backoff" /\ backoff' = oneMinute)]_vars

\* C12 (as claimed): when the metadata of a product is saved, the scene recorded
\* with the styled-photoshoot slots is the scene of the payload that produced the
\* file, for every file produced from a regenerated scene.
C12_RecordedSceneIsSceneUsed ==
  metadata # << >> =>
    \A m \in 1..Len(generatedImages) :
      (imageTypes[generatedImages[m]].usesScene /\ usedScene[m] > 1) =>
        /\ scenesFile.id = usedScene[m]
        /\ \A k \in 1..Len(metadata) :
             imageTypes[k].usesScene => metadata[k].scene.id = usedScene[m]

\* C13 (as claimed): generatePhotoshootScenes is called at most
\* maxSceneRegenerates = 2 times per product beyond the initial call of line 515.
C13_RegenerationsCappedPerItem ==
  sceneCalls - 1 <= maxSceneRegenerates

\* The last element of a sequence that has one.
Last(s) == s[Len(s)]
\* The steps that made the files of a list of urls.
Arts(urls) == [m \in 1..Len(urls) |-> urls[m].art]
\* generateImages has gone through all its steps and is about to return.
Returning == pc = "build" /\ i > NumSteps

\* C14: when generateImages returns no file because every step failed, the
\* product is still pushed to processedProducts, without any generated url (so
\* updateCsv does not count it among the products with generated images), no
\* upload and no metadata is made for it, and the loop goes on with the next
\* product: the promise is not settled by it.
C14_AllStepsFailedStillPushed ==
  [][(Returning /\ Len(generatedImages) = 0) =>
       /\ processedProducts' = Append(processedProducts, Processed(productsToProcess[p], << >>))
       /\ pc' = "loop"
       /\ promise' = "pending"
       /\ UNCHANGED <<p, uploadedUrls, metadata, skipped, csvWritten>>]_vars

\* The image model is down: the first product went through all its steps, every
\* one of them failed, it was pushed without url and the second product is in hand.
C14_Witness ==
  /\ outage
  /\ p = 2
  /\ pc = "download"
  /\ skipped = {}
  /\ Len(processedProducts) = 1
  /\ processedProducts[1].images = << >>
  /\ i = NumSteps + 1
  /\ retryCount = maxRetries

\* C15: a step that ends without success after its attempts does not end
\* generateImages: the loop goes on with the next step and the files pushed so
\* far stay in generatedImages; every step whose payload was built makes at least
\* one attempt; generateImages returns only after the last step; files are never
\* removed from generatedImages, and the product is pushed with one url per file.
C15_FailedStepDoesNotAbortItem ==
  /\ []((pc = "while" /\ ~LoopContinues) => attempts >= 1)
  /\ [][(pc = "while" /\ ~LoopContinues /\ ~success) =>
          (i' = i + 1 /\ pc' = "build" /\ generatedImages' = generatedImages)]_vars
  /\ [][(pc = "build" /\ pc' \in {"upload", "loop"}) => i > NumSteps]_vars
  /\ [][\/ generatedImages' = generatedImages
        \/ generatedImages' = Append(generatedImages, i)
        \/ pc = "download"]_vars
  /\ [][(pc = "upload" /\ pc' = "loop" /\ skipped' = skipped) =>
          Arts(Last(processedProducts').images) = generatedImages]_vars

\* The second step failed after the first had succeeded; the third succeeded and
\* the files of both are uploaded.
C15_Witness ==
  /\ pc = "upload"
  /\ Len(generatedImages) >= 2
  /\ generatedImages[1] = 1
  /\ generatedImages[2] = 3
  /\ Len(uploadedUrls) = Len(generatedImages)

\* Line 947: the urls that are not local paths.
successfulUploads == Cardinality({k \in 1..Len(uploadedUrls) : ~uploadedUrls[k].local})

\* C16: an upload that gives no url does not fail the product: the url pushed for
\* that file is the local path of the same file, the upload loop goes on with the
\* next file, every file gets exactly one url, in order, the product is pushed
\* with all of them, and successfulUploads is below the number of files exactly
\* when some url is a local path.
C16_FailedUploadKeepsLocalReference ==
  /\ [][(pc = "upload" /\ Len(uploadedUrls') = Len(uploadedUrls) + 1 /\ faults' = faults + 1) =>
          /\ Last(uploadedUrls').local
          /\ Last(uploadedUrls').art = generatedImages[Len(uploadedUrls')]
          /\ pc' = "upload"
          /\ promise' = "pending"]_vars
  /\ [](pc = "upload" =>
          /\ Len(uploadedUrls) <= Len(generatedImages)
          /\ \A k \in 1..Len(uploadedUrls) : uploadedUrls[k].art = generatedImages[k]
          /\ (successfulUploads < Len(uploadedUrls)) <=>
               (\E k \in 1..Len(uploadedUrls) : uploadedUrls[k].local))
  /\ [][(pc = "upload" /\ pc' = "loop" /\ skipped' = skipped) =>
          /\ Last(processedProducts').images = uploadedUrls
          /\ Len(uploadedUrls) = Len(generatedImages)]_vars

\* The first upload of a product failed, the second succeeded, and the product
\* was pushed with the local path in the first place.
C16_Witness ==
  /\ Len(processedProducts) >= 1
  /\ Len(processedProducts[1].images) >= 2
  /\ processedProducts[1].images[1].local
  /\ ~processedProducts[1].images[2].local
  /\ processedProducts[1].images[1].art = 1

\* C17: when the download of a product fails, that product alone is skipped: no
\* rate-limited call is made (the limiter and its counters are untouched),
\* nothing is pushed, uploaded or saved, the loop goes on with the next product,
\* and no entry of processedProducts ever belongs to that product.
C17_DownloadFailureSkipsProduct ==
  /\ [][(pc = "download" /\ skipped' # skipped) =>
          /\ pc' = "loop"
          /\ promise' = "pending"
          /\ UNCHANGED <<p, requestCount, dailyRequestCount, lastResetTime, rl,
                         processedProducts, uploadedUrls, metadata, generatedImages,
                         sceneCalls, attempts>>]_vars
  /\ [](\A s \in skipped : s.at = "download" =>
          \A n \in 1..Len(processedProducts) :
            processedProducts[n].row # productsToProcess[s.index].row)

\* The download of the first product failed and the second product went through
\* generation and was pushed with its urls.
C17_Witness ==
  /\ skipped = {[index |-> 1, at |-> "download"]}
  /\ Len(processedProducts) = 1
  /\ processedProducts[1].handle = "h2"
  /\ Len(processedProducts[1].images) = NumSteps
  /\ pc = "done"

\* C18 (as claimed): when the run is over, every product of the slice whose
\* download succeeded has exactly one entry in the result list, whatever failed
\* after the download (generation, upload or the writing of the metadata).
C18_EveryItemAccountedFor ==
  pc = "done" =>
    \A k \in 1..Len(productsToProcess) :
      [index |-> k, at |-> "download"] \notin skipped =>
        Cardinality({n \in 1..Len(processedProducts) :
                      processedProducts[n].row = productsToProcess[k].row}) = 1

\* The rows of the CSV that carry handle h, and the entries of the result list
\* that carry it.
RowsOf(h) == {r \in 1..Len(products) : products[r].Handle = h}
EntriesOf(h) == {n \in 1..Len(processedProducts) : processedProducts[n].handle = h}

\* C19: whatever rows share a handle, the de-duplicated list holds every handle of
\* the CSV exactly once, as its first row and in the order of the first rows;
\* the loop takes the products of the slice one by one, each once; the result
\* list never holds two entries of one handle, every entry is the first row of
\* its handle, and when the run is over every product of the slice has exactly
\* one entry, unless the catch of line 1007 skipped it.
C19_DeDuplication ==
  /\ [](\A h \in Handles :
          Cardinality({k \in 1..Len(uniqueProducts) : uniqueProducts[k].Handle = h})
            = IF RowsOf(h) = {} THEN 0 ELSE 1)
  /\ [](\A k \in 1..Len(uniqueProducts) :
          /\ uniqueProducts[k] \in {products[r] : r \in 1..Len(products)}
          /\ \A r \in RowsOf(uniqueProducts[k].Handle) : uniqueProducts[k].row <= r
          /\ \A j \in 1..(k - 1) : uniqueProducts[j].row < uniqueProducts[k].row)
  /\ [][p' = p \/ (p' = p + 1 /\ p' <= Len(productsToProcess))]_vars
  /\ [](\A h \in Handles : Cardinality(EntriesOf(h)) <= 1)
  /\ [](\A n \in 1..Len(processedProducts) :
          /\ processedProducts[n].row \in RowsOf(processedProducts[n].handle)
          /\ \A r \in RowsOf(processedProducts[n].handle) : processedProducts[n].row <= r)
  /\ [](pc \in {"done", "crashed"} =>
          \A k \in 1..Len(productsToProcess) :
            Cardinality(EntriesOf(productsToProcess[k].Handle))
              = IF \E s \in skipped : s.index = k THEN 0 ELSE 1)

\* Rows 1 and 3 share a handle; the whole list was processed and the result list
\* holds one entry for that handle, made from row 1, and one for the other handle.
C19_Witness ==
  /\ Len(products) = 3
  /\ products[1].Handle = products[3].Handle
  /\ products[2].Handle # products[1].Handle
  /\ specificHandle = ""
  /\ pc = "done"
  /\ Len(processedProducts) = 2
  /\ processedProducts[1].row = 1
  /\ processedProducts[2].row = 2

\* The number of products the claim has the batch process.
ClaimedCount ==
  IF limit = undefined
    THEN Max(0, Len(filteredProducts) - Max(0, startIndex))
    ELSE Min(limit, Max(0, Len(filteredProducts) - Max(0, startIndex)))

AllSucceeded ==
  faults = 0 /\ ~outage /\ RATE_LIMITS.requestsPerDay = defaultRequestsPerDay

StepTerminal ==
  \/ pc = "while" /\ (success \/ retryCount >= maxRetries)
  \/ pc = "build" /\ i \in 1..NumSteps /\ imageTypes[i].usesScene
       /\ ~photoshootScenes.complete

\* C27: the steps are taken in their declared order, the index moves to the next
\* step only when the step in hand has reached its outcome, the first attempt of
\* a step is made at that step's own index, and the files are pushed in
\* declaration order.
C27_StepsInDeclaredOrder ==
  /\ [](\A k \in 1..Len(generatedImages) :
          /\ generatedImages[k] \in 1..NumSteps
          /\ generatedImages[k] <= i
          /\ \A l \in 1..Len(generatedImages) :
               k < l => generatedImages[k] < generatedImages[l])
  /\ [][i' # i =>
          \/ pc = "download" /\ i' = 0
          \/ pc = "scene" /\ i = 0 /\ i' = 1
          \/ StepTerminal /\ i' = i + 1]_vars
  /\ [][generatedImages' # generatedImages =>
          \/ pc = "download" /\ generatedImages' = << >>
          \/ pc = "gen" /\ Len(generatedImages') = Len(generatedImages) + 1
               /\ generatedImages'[Len(generatedImages')] = i
               /\ \A k \in 1..Len(generatedImages) :
                    generatedImages'[k] = generatedImages[k]]_vars

\* Step 2 failed for good and the three steps after it succeeded: the files of
\* steps 1, 3, 4 and 5 are there in that order.
C27_Witness ==
  /\ pc = "upload"
  /\ generatedImages = <<1, 3, 4, 5>>

\* C28 (as claimed): for a step that uses the scene, the scene is regenerated
\* after the first attempt has failed, whichever way it failed.
C28_RegenerationAfterFirstFailure ==
  [][(/\ pc = "gen"
      /\ pc' # "gen"
      /\ attempts = 1
      /\ imageTypes[i].usesScene
      /\ sceneRegenerateCount < maxSceneRegenerates
      /\ ~success')
       => pc' \in {"regenNoImage", "regenThrew"}]_vars

\* C29 (as claimed): the attempt made when one counted attempt is left uses the
\* simplified prompt, whichever way the attempt before it failed.
C29_FallbackPromptOnLastAttempt ==
  (pc = "gen" /\ retryCount = maxRetries - 1) => currentContentArray = FallbackContent

\* C30 (as claimed): the delay before attempt n is min(1000 * 2^n, 10000), n the
\* number of the attempt about to be made.
C30_BackoffByAttemptNumber ==
  pc = "backoff" => backoff = Min(1000 * Pow2(attempts + 1), 10000)

\* C30 (amended): the delay after an attempt that threw is
\* min(1000 * 2^retryCount, 10000) with retryCount the failures counted so far,
\* 2000 ms after one and 4000 ms after two; the cap of 10000 ms is never reached.
C30_BackoffByRetryCount ==
  pc = "backoff" =>
    /\ retryCount \in 1..(maxRetries - 1)
    /\ backoff = Min(1000 * Pow2(retryCount), 10000)
    /\ backoff = 2000 * retryCount
    /\ backoff < 10000

\* The second attempt of a step threw as the first had: the timer runs for 4000 ms.
C30_Witness ==
  /\ pc = "backoff"
  /\ attempts = 2
  /\ retryCount = 2
  /\ backoff = 4000

\* C21 (as claimed): unless the CSV cannot be read, the run completes for every
\* collection of rows, the empty one included: the promise of processProducts
\* resolves and updateCsv has run once.
C21_RunCompletes ==
  <>(pc = "failed" \/ (promise = "resolved" /\ csvWritten = 1))

\* What the scene call of the last generatePhotoshootScenes ended with: it threw
\* (the model, or the budget), or its response did not parse.
SceneCallFailed == thrown # "none" \/ response = "unparsable"

\* C22 (as claimed): generatePhotoshootScenes never raises to its caller, and a
\* scene call that failed yields a fallback scene: one of the three labels and
\* the seven fixed values.
C22_SceneResolutionNeverRaises ==
  /\ gps.state # "raised"
  /\ (gps.state = "returned" /\ SceneCallFailed)
       => gps.scene \in {FallbackScene(label) : label \in fallbackAesthetics}

\* Every field is present, and is a non-empty text or a non-empty list.
SatisfiesContract(scene) ==
  /\ scene.keys = SceneFields
  /\ \A f \in SceneFields : scene[f] # EmptyValue(f)

\* C23 (as claimed): a scene that generatePhotoshootScenes returned and from which
\* a payload was built has its eight fields present and non-empty.
C23_UsedSceneSatisfiesContract ==
  (gps.state = "returned" /\ gps.prompt = "built") => SatisfiesContract(gps.scene)

\* C24 (as claimed): a download that ran into its timeout is retried like a
\* network error, so it is given up only when downloadMaxRetries requests failed.
C24_TimeoutIsRetried ==
  (dl.state = "threw" /\ dl.code = "ECONNABORTED") => dl.retryCount = downloadMaxRetries

\* The lines of the input file that the rows of the output file which are not
\* image rows came from, in output order.
OriginalLines ==
  LET rows == SelectSeq(updatedCsv, LAMBDA e : e.row # 0) IN
  [n \in 1..Len(rows) |-> LineOf(rows[n].row)]

\* C26 (as claimed): the updated CSV holds every row of the input CSV, in the
\* original order, and besides them only image rows.
C26_UpdatedCsvKeepsEveryRow ==
  csvWritten = 1 => OriginalLines = [k \in 1..Len(csv) |-> k]

\* C37: downloadImage makes at most three requests for one image. It waits and
\* retries only after an error coded EAI_AGAIN, ENOTFOUND or ECONNRESET, 2000 ms
\* before the second request and 4000 ms before the third; any other error, and
\* the third failure, is thrown at once.
C37_DownloadRetryLadder ==
  /\ [](dl.retryCount \in 0..downloadMaxRetries)
  /\ [](dl.state \in {"ok", "retry", "wait"} => dl.retryCount < downloadMaxRetries)
  /\ [](dl.state \in {"wait", "retry"} =>
          /\ dl.code \in {"EAI_AGAIN", "ENOTFOUND", "ECONNRESET"}
          /\ dl.retryCount \in 1..2
          /\ dl.waitTime = IF dl.retryCount = 1 THEN 2000 ELSE 4000)
  /\ [](dl.state = "threw" =>
          \/ dl.code \notin {"EAI_AGAIN", "ENOTFOUND", "ECONNRESET"}
          \/ dl.retryCount = downloadMaxRetries)
  /\ [][dl.state = "none" /\ dl'.state = "threw" /\ dl'.retryCount = 1 =>
          dl'.code \notin {"EAI_AGAIN", "ENOTFOUND", "ECONNRESET"}]_vars
  /\ [][dl.state = "wait" /\ dl' # dl =>
          dl'.state = "retry" /\ now' >= now + dl.waitTime]_vars

\* The third request failed as the two before it, after waits of 2000 and 4000 ms.
C37_Witness ==
  /\ dl.state = "threw"
  /\ dl.retryCount = downloadMaxRetries
  /\ dl.code = "ECONNRESET"
  /\ now >= 6000

\* The image rows that the output file has for handle h.
ImageRowsOf(h) ==
  {n \in 1..Len(updatedCsv) : updatedCsv[n].row = 0 /\ updatedCsv[n].Handle = h}

\* C38 (as claimed): for a handle with N generated urls the output file has
\* exactly N added image rows, at the positions max + 1 .. max + N, distinct from
\* each other; a handle without generated urls has none.
C38_OneImageRowPerUrl ==
  csvWritten = 1 =>
    \A h \in Handles :
      /\ Cardinality(ImageRowsOf(h)) = Len(GeneratedImagesOf(h))
      /\ \A m, n \in ImageRowsOf(h) :
           m # n => updatedCsv[m].position # updatedCsv[n].position

\* C32: after an operation has returned, the next reservation is not attempted
\* earlier than delayBetweenRequests after that return.
C32_DelayAfterSuccessfulCall ==
  /\ (rl \in {"waiting", "inflight", "threw"} /\ tally.doneAt # undefined)
       => callAt >= tally.doneAt + delayBetweenRequests
  /\ (rl = "returned") => now >= tally.doneAt + delayBetweenRequests

\* A reservation made by a caller that did not wait at all after the call before
\* it had returned: it starts exactly delayBetweenRequests after that return.
C32_Witness ==
  /\ rl = "inflight"
  /\ tally.doneAt # undefined
  /\ callAt = tally.doneAt + delayBetweenRequests

\* C36: whenever no call is in flight and no reservation is suspended,
\* requestCount is the number of operations that returned since the minute
\* counter was last set to 0, dailyRequestCount the number since the daily counter
\* was last set to 0; neither counter is ever negative.
C36_CountersCountReturnedCalls ==
  /\ requestCount >= 0
  /\ dailyRequestCount >= 0
  /\ BetweenCalls =>
       /\ requestCount = tally.minute
       /\ dailyRequestCount = tally.day

\* Two operations returned and one threw since the last reset; then a minute
\* rollover has set the minute counter to 0 and one more operation returned.
C36_Witness ==
  /\ rl = "returned"
  /\ calls = 4
  /\ requestCount = 1
  /\ dailyRequestCount = 3
  /\ tally = [minute |-> 1, day |-> 3, doneAt |-> now - delayBetweenRequests]

\* The flow of control is at a rate-limited call (a scene call or an image call).
AtRateLimitedCall == pc \in {"scene", "gen", "regenNoImage", "regenThrew"}

\* C31: the products are handled one after another, in the order of the
\* de-duplicated and sliced rows, and the steps one after another within a
\* product: a reservation is pending or a model call in flight only while the
\* flow is at that one call, never during a download or an upload; the next
\* product is taken only when the product in hand is finished; a step is entered
\* only between the calls of the product in hand; processedProducts keeps the
\* order of the input rows.
C31_StrictlySequential ==
  /\ [](rl \in {"waiting", "inflight"} => AtRateLimitedCall)
  /\ [](pc \in {"read", "loop", "download", "upload", "done"} =>
          rl \in {"idle", "returned", "threw"})
  /\ [][p' # p => (pc = "loop" /\ p' = p + 1 /\ pc' = "download")]_vars
  /\ [][i' # i => (pc \in {"download", "scene", "build", "while"}
                     /\ rl \in {"idle", "returned", "threw"})]_vars
  /\ [](\A n \in 1..Len(processedProducts) :
          /\ \E k \in 1..p : processedProducts[n].row = productsToProcess[k].row
          /\ \A m \in 1..(n - 1) : processedProducts[m].row < processedProducts[n].row)

\* Both products of the file went through the pipeline and were pushed in the
\* order of their rows.
C31_Witness ==
  /\ pc = "done"
  /\ Len(processedProducts) = 2
  /\ processedProducts[1].row = 1 /\ processedProducts[1].images # << >>
  /\ processedProducts[2].row = 3 /\ processedProducts[2].images # << >>

\* C34: a scene regenerated during a step is used for the remaining attempts of
\* that step only. The scene selected at line 522 is never replaced; every step
\* that uses the scene builds its first payload from it, and every step starts
\* with retryCount = 0 and sceneRegenerateCount = 0.
C34_RegeneratedSceneStaysInItsStep ==
  /\ [][pc \notin {"download", "scene"} => photoshootScenes' = photoshootScenes]_vars
  /\ [][(pc = "build" /\ pc' = "while") =>
          /\ retryCount' = 0
          /\ sceneRegenerateCount' = 0
          /\ attempts' = 0
          /\ imageTypes[i].usesScene =>
               /\ currentScene' = photoshootScenes
               /\ currentContentArray' = PhotoshootContent(photoshootScenes)
               /\ currentContentArray'.scene = 1]_vars
  /\ [][(pc \notin {"download", "build"} /\ currentScene' # currentScene) =>
          (pc \in {"regenNoImage", "regenThrew"} /\ UNCHANGED i)]_vars

\* photoshoot_1 got its file from a regenerated scene; photoshoot_2 is about to
\* make its first attempt with the payload built from the scene of line 522.
C34_Witness ==
  /\ pc = "while"
  /\ i = 5
  /\ attempts = 0
  /\ sceneCalls = 2
  /\ Len(usedScene) >= 1
  /\ usedScene[Len(usedScene)] = 2
  /\ currentScene = photoshootScenes
  /\ currentContentArray.scene = 1
  /\ sceneRegenerateCount = 0

\* C35 (as claimed): between two consecutive attempts of a step there is a delay
\* of at least 2000 ms, whichever way the earlier attempt failed. For a step that
\* does not use the scene the call before an attempt is the attempt before it,
\* entered at callAt.
C35_BackoffBetweenAttempts ==
  [][(pc = "while" /\ pc' = "gen" /\ attempts >= 1 /\ ~imageTypes[i].usesScene)
       => now' >= callAt + 2000]_vars

\* C33 (as claimed): generateImages makes a bounded number of calls for a product:
\* at most 3 image calls for a step that does not use the scene, at most 5 image
\* calls and 2 scene regenerations for a step that does, at most 5 scene calls in
\* all. photoshoot_1 is the first step that regenerates, so while it is in hand
\* the scene calls are the first one and its regenerations.
C33_BoundedCallsPerItem ==
  (i \in 1..NumSteps) =>
    /\ attempts <= (IF imageTypes[i].usesScene THEN 5 ELSE 3)
    /\ sceneCalls <= 5
    /\ (i = 4 => sceneCalls - 1 <= maxSceneRegenerates)

====
